---- MODULE Spec2Model ----
(***************************************************************************)
(* A model of ai.py, the Universal Chat CLI: the tag stripper, the history *)
(* trim and rollback, the streaming response reader and the session loop.  *)
(* Text is a sequence of one-character strings, so that find() and slices  *)
(* are computed as Python computes them.                                   *)
(***************************************************************************)
EXTENDS Integers, Sequences, FiniteSets, TLC

VARIABLES
    \* --- strip_think_tags applied to a drawn input, then to its own result
    text_in,        \* the input, a sequence of fragments (see Fragments)
    stripped,       \* strip_think_tags(input)
    restripped,     \* strip_think_tags(strip_think_tags(input))
    strip_pc,       \* "input" | "once" | "twice"
    \* --- truncate_history / rollback applied to a drawn conversation
    conv,           \* the conversation handed to the operation
    conv_compat,    \* is_openai_compat
    conv_out,       \* the conversation afterwards
    conv_op,        \* "none" | "truncate" | "rollback"
    \* --- the session: main, chat_loop and stream_response
    provider,       \* "gemini" | "groq" (any OpenAI-compatible SSE provider) | "ollama";
                    \* in main also what else argv[0] may hold
    api_key,        \* API_KEYS[provider], as configured
    enable_tools,   \* main's enable_tools
    sigint_handler, \* the SIGINT handler in force: "default" | "exit130"
    pc,             \* main: "main" | "main_key" | "main_tools" | "main_fetch" |
                    \*   "main_select" | "main_start" | "exit0" | "exit1";
                    \* chat_loop: "prompt" | "streaming" | "ended";
                    \* "exited" (sys.exit(130)) | "crashed" (uncaught exception)
    history,        \* chat_loop's history
    thinking_on,    \* chat_loop's thinking_on
    first_msg,      \* chat_loop's first_msg
    image,          \* chat_loop's image: 0 when none is attached, else the
                    \* number of the request it was attached for
    saved,          \* the session file /save wrote: [exists, data]
    notice,         \* what the last slash command or input guard refused:
                    \* "message", "name", "session" (a file /load cannot use),
                    \* "write", "image", or "" for nothing
    cycles,         \* requests sent so far
    body,           \* the lines of the response body the server sends
    delivered,      \* how many of them the reads have handed over
    buffer,         \* stream_response's buffer: complete lines not yet processed
    st,             \* stream_response's locals and what it wrote to stdout
    ai_text,        \* what the last stream_response returned
    \* --- stream_response's read loop seen at the level of bytes
    wire,           \* the bytes of the response body
    wire_pos,       \* how many of them the reads have handed over
    wire_buffer,    \* stream_response's buffer: the decoded text not yet split
    wire_text,      \* stream_response's full_text
    wire_pc         \* "reading" | "returned"

stripVars == <<text_in, stripped, restripped, strip_pc>>
convVars  == <<conv, conv_compat, conv_out, conv_op>>
netVars   == <<body, delivered, buffer>>
mainVars  == <<api_key, enable_tools>>
shellVars == <<image, saved, notice>>
chatVars  == <<provider, mainVars, sigint_handler, pc, history, thinking_on, first_msg,
               shellVars, cycles, netVars, st, ai_text>>
wireVars  == <<wire, wire_pos, wire_buffer, wire_text, wire_pc>>
vars == <<stripVars, convVars, chatVars, wireVars>>

(***************************************************************************)
(* Bounds of the model.                                                    *)
(***************************************************************************)
\* Longest input of the tag stripper, in fragments.
MaxFrags == 4
\* Longest conversation handed to truncate_history / rollback.
MaxConv == 7
\* MAX_HISTORY_MESSAGES (ai.py:66 sets 20), scaled down to keep trims in reach.
MAX_HISTORY_MESSAGES == 4
\* MAX_MESSAGE_LENGTH (ai.py:67 sets 50_000), scaled down to keep oversized
\* responses in reach.
MAX_MESSAGE_LENGTH == 24
\* Longest response body drawn line by line, in lines.
MaxLines == 3
\* Most text-deltas a split text is cut into.
MaxDeltas == 3
\* Requests of one session.
MaxCycles == 4
\* Requests of one session with slash commands.
MaxShellCycles == 2
MaxChars == 2

(***************************************************************************)
(* Python's str operations on sequences of characters.                     *)
(***************************************************************************)
SetMin(S) == CHOOSE x \in S : \A y \in S : x <= y

\* s.find(p): the 0-based index of the first occurrence of p in s, or -1.
Find(s, p) ==
    LET hits == {i \in 0..(Len(s) - Len(p)) : SubSeq(s, i + 1, i + Len(p)) = p}
    IN  IF hits = {} THEN -1 ELSE SetMin(hits)

\* s[:n]
Take(s, n) == SubSeq(s, 1, IF n < Len(s) THEN n ELSE Len(s))

\* s[n:]
Drop(s, n) == SubSeq(s, n + 1, Len(s))

Contains(s, p) == Find(s, p) # -1

RECURSIVE Flatten(_)
Flatten(ss) == IF ss = <<>> THEN <<>> ELSE Head(ss) \o Flatten(Tail(ss))

OPEN_TAG  == <<"<", "t", "h", "i", "n", "k">>          \* "<think"
CLOSE_TAG == <<"<", "/", "t", "h", "i", "n", "k">>     \* "</think"
GT        == <<">">>

(***************************************************************************)
(* strip_think_tags (ai.py:202-220).                                       *)
(***************************************************************************)
RECURSIVE StripLoopKeepUnclosed(_, _)
StripLoopKeepUnclosed(result, remaining) ==
    IF remaining = <<>> THEN result
    ELSE LET start == Find(remaining, OPEN_TAG) IN
         IF start = -1 THEN result \o remaining
         ELSE LET r1         == result \o Take(remaining, start)
                  after_open == Drop(remaining, start + 6)
                  bracket    == Find(after_open, GT)
                  rem1       == IF bracket # -1 THEN Drop(after_open, bracket + 1) ELSE <<>>
                  close      == Find(rem1, CLOSE_TAG)
              IN  IF close = -1 THEN r1 \o rem1
                  ELSE LET after_close == Drop(rem1, close + 7)
                           bracket2    == Find(after_close, GT)
                           rem2        == IF bracket2 # -1
                                          THEN Drop(after_close, bracket2 + 1) ELSE <<>>
                       IN  StripLoopKeepUnclosed(r1, rem2)

\* A stripper that keeps the text of an unclosed region instead of dropping it.
strip_keeps_unclosed(text) == StripLoopKeepUnclosed(<<>>, text)

\* The while loop of strip_think_tags: one iteration per recursion.
RECURSIVE StripLoop(_, _)
StripLoop(result, remaining) ==
    IF remaining = <<>> THEN result
    ELSE LET start == Find(remaining, OPEN_TAG) IN
         IF start = -1 THEN result \o remaining
         ELSE LET r1         == result \o Take(remaining, start)
                  after_open == Drop(remaining, start + 6)
                  bracket    == Find(after_open, GT)
                  rem1       == IF bracket # -1 THEN Drop(after_open, bracket + 1) ELSE <<>>
                  close      == Find(rem1, CLOSE_TAG)
              IN  IF close = -1 THEN r1
                  ELSE LET after_close == Drop(rem1, close + 7)
                           bracket2    == Find(after_close, GT)
                           rem2        == IF bracket2 # -1
                                          THEN Drop(after_close, bracket2 + 1) ELSE <<>>
                       IN  StripLoop(r1, rem2)

strip_think_tags(text) == StripLoop(<<>>, text)

(***************************************************************************)
(* History management (ai.py:393-414) and the rollback of chat_loop        *)
(* (ai.py:1087-1091).  A turn is [role, content, image]: content is the    *)
(* text of the turn ("content" or the text part of "parts"), image whether *)
(* image part the turn carries (0: none).                                  *)
(***************************************************************************)
Turn(role, content) == [role |-> role, content |-> content, image |-> 0]

\* The role of a reply: "assistant", or "model" for Gemini (ai.py:1083-1086).
ReplyRole(is_openai_compat) == IF is_openai_compat THEN "assistant" ELSE "model"

\* A trim that drops exactly the excess, without the pairing of Gemini turns.
truncate_no_pairing(hist, is_openai_compat) ==
    LET system_offset == IF is_openai_compat /\ hist # <<>> /\ hist[1].role = "system"
                         THEN 1 ELSE 0
        max_total == MAX_HISTORY_MESSAGES + system_offset
        to_remove == Len(hist) - max_total
    IN  IF Len(hist) <= max_total THEN hist
        ELSE IF system_offset = 1
             THEN <<hist[1]>> \o Drop(hist, 1 + to_remove)
             ELSE Drop(hist, to_remove)

\* A trim that never counts a system turn: it treats every conversation as
\* it treats Gemini's.
truncate_offset_zero(hist, is_openai_compat) ==
    LET excess    == Len(hist) - MAX_HISTORY_MESSAGES
        to_remove == IF ~is_openai_compat /\ excess % 2 = 1 THEN excess + 1 ELSE excess
    IN  IF Len(hist) <= MAX_HISTORY_MESSAGES THEN hist ELSE Drop(hist, to_remove)

\* A trim that counts the system turn but drops from the front all the same.
truncate_from_front(hist, is_openai_compat) ==
    LET system_offset == IF is_openai_compat /\ hist # <<>> /\ hist[1].role = "system"
                         THEN 1 ELSE 0
        max_total == MAX_HISTORY_MESSAGES + system_offset
        excess    == Len(hist) - max_total
        to_remove == IF ~is_openai_compat /\ excess % 2 = 1 THEN excess + 1 ELSE excess
    IN  IF Len(hist) <= max_total THEN hist ELSE Drop(hist, to_remove)

\* ai.py:399-414
truncate_history(hist, is_openai_compat) ==
    LET system_offset == IF is_openai_compat /\ hist # <<>> /\ hist[1].role = "system"
                         THEN 1 ELSE 0
        max_total == MAX_HISTORY_MESSAGES + system_offset
        excess    == Len(hist) - max_total
        \* Gemini requires strict user/model alternation: remove in pairs
        to_remove == IF ~is_openai_compat /\ excess % 2 = 1 THEN excess + 1 ELSE excess
    IN  IF Len(hist) <= max_total THEN hist
        ELSE IF system_offset = 1
             THEN <<hist[1]>> \o Drop(hist, 1 + to_remove)
             ELSE Drop(hist, to_remove)

\* A rollback that pops the last turn whatever its role.
rollback_any_role(hist) ==
    IF hist # <<>> THEN SubSeq(hist, 1, Len(hist) - 1) ELSE hist

\* A rollback that leaves the user turn of a failed request in place.
rollback_skipped(hist) == hist

\* The else branch of chat_loop after stream_response: pop a trailing user turn.
Rollback(hist) ==
    IF hist # <<>> /\ hist[Len(hist)].role = "user"
    THEN SubSeq(hist, 1, Len(hist) - 1)
    ELSE hist

(***************************************************************************)
(* Payload building (ai.py:495-529) and init_history (ai.py:393-396).      *)
(* The Gemini tool declarations are left out of the model.                 *)
(***************************************************************************)
\* SYSTEM_PROMPT (ai.py:79), shortened to one character.
SYSTEM_PROMPT == <<"S">>

IsOpenaiCompat(prov) == prov # "gemini"

init_history(is_openai_compat) ==
    IF SYSTEM_PROMPT # <<>> /\ is_openai_compat
    THEN <<Turn("system", SYSTEM_PROMPT)>>
    ELSE <<>>

\* A build_payload that sends the conversation as it is.
build_payload_unfiltered(hist, is_openai_compat) == hist

\* ai.py:532-562: the turns of the wire payload ("contents" for Gemini,
\* "messages" otherwise); Gemini has no system role.
build_payload(hist, is_openai_compat) ==
    IF ~is_openai_compat
    THEN SelectSeq(hist, LAMBDA m : m.role # "system")
    ELSE hist

\* A build_user_message that leaves the attached image out of the turn.
build_user_message_no_image(text, img, is_openai_compat, is_first) ==
    Turn("user", text)

\* ai.py:495-529: the user turn; Gemini gets the system prompt prepended to
\* the first message.  img is image's number, 0 when none is attached.
build_user_message(text, img, is_openai_compat, is_first) ==
    IF img # 0
    THEN [Turn("user", IF ~is_openai_compat /\ is_first /\ SYSTEM_PROMPT # <<>>
                       THEN SYSTEM_PROMPT \o <<"\n\n">> \o text
                       ELSE text)
            EXCEPT !.image = img]
    ELSE IF ~is_openai_compat /\ is_first /\ SYSTEM_PROMPT # <<>>
    THEN Turn("user", SYSTEM_PROMPT \o <<"\n\nUser: ">> \o text)
    ELSE Turn("user", text)

(***************************************************************************)
(* The lines of a response body.  A line is given by its framing and by    *)
(* what json.loads makes of its payload:                                   *)
(*   frame    "data" (starts with "data: "), "brace" (starts with "{"),    *)
(*            "other" (neither: blank lines, SSE comments, event: lines)   *)
(*   payload  "OBJ" (a JSON object), "DONE" ("[DONE]"), "BAD" (json.loads  *)
(*            raises JSONDecodeError), "EMPTY" (nothing after the prefix), *)
(*            "NONOBJ" (JSON that is no object: a number, a list, null)    *)
(* and, for an object, the fields the extraction reads:                    *)
(*   error    the message of "error" / "detail", "" when absent or empty   *)
(*   content  delta.content / message.content / parts[0].text              *)
(*   thinking delta.reasoning / message.thinking                           *)
(*   finish   finish_reason / finishReason, "" when absent                 *)
(*   done     Ollama's "done": true                                        *)
(*   block    promptFeedback.blockReason, "" when absent                   *)
(*   rating_blocked  some safetyRatings entry has "blocked"                *)
(***************************************************************************)
Obj == [frame |-> "data", payload |-> "OBJ", error |-> "", content |-> <<>>,
        thinking |-> <<>>, finish |-> "", done |-> FALSE, block |-> "",
        rating_blocked |-> FALSE]

Delta(t)       == [Obj EXCEPT !.content = t]
ThinkDelta(t)  == [Obj EXCEPT !.thinking = t]
Finish(r)      == [Obj EXCEPT !.finish = r]
DoneFlag       == [Obj EXCEPT !.done = TRUE]
ErrLine(e)     == [Obj EXCEPT !.error = e]
BlockLine      == [Obj EXCEPT !.block = "SAFETY"]
RatingLine     == [Obj EXCEPT !.rating_blocked = TRUE]
Sentinel       == [Obj EXCEPT !.payload = "DONE"]
BadJson        == [Obj EXCEPT !.payload = "BAD"]
EmptyData      == [Obj EXCEPT !.payload = "EMPTY"]
BlankLine      == [Obj EXCEPT !.frame = "other", !.payload = "EMPTY"]
NonObject      == [Obj EXCEPT !.payload = "NONOBJ"]

(***************************************************************************)
(* stream_response (ai.py:569-815).  s is the record of its locals, with   *)
(* `sink` the text it wrote to stdout for this request (colour codes, the  *)
(* "AI:" prefix and the status lines left out).                            *)
(***************************************************************************)
StreamStart ==
    [full_text |-> <<>>, full_thinking |-> <<>>, first_chunk |-> TRUE,
     is_thinking |-> FALSE, in_think_disp |-> FALSE, finish_reason |-> "",
     error_msg |-> "", interrupted |-> FALSE, sink |-> <<>>]

\* The value stream_response returns: None, or a non-empty text.
None == [none |-> TRUE, text |-> <<>>]
Some(t) == [none |-> FALSE, text |-> t]

\* ai.py:655-672, 680-685: text_tok, think_tok and cur_finish of an object.
Extract(prov, obj) ==
    IF prov = "ollama"
    THEN [text |-> obj.content, think |-> obj.thinking,
          finish |-> IF obj.done THEN "stop" ELSE ""]
    ELSE IF prov # "gemini"
    THEN [text |-> obj.content, think |-> obj.thinking, finish |-> obj.finish]
    ELSE [text |-> obj.content, think |-> <<>>,
          finish |-> IF (obj.finish = "" \/ obj.finish = "null") /\ obj.rating_blocked
                     THEN "SAFETY" ELSE obj.finish]

\* A thinking step that, when reasoning is displayed, also takes the
\* reasoning into the answer.
think_step_into_text(s, think_tok, enable_thinking) ==
    IF think_tok = <<>> THEN s
    ELSE [s EXCEPT
            !.full_thinking = @ \o think_tok,
            !.full_text = IF enable_thinking THEN @ \o think_tok ELSE @,
            !.sink = IF enable_thinking
                     THEN @ \o (IF s.in_think_disp THEN <<>> ELSE <<"[Thinking] ">>)
                            \o think_tok
                     ELSE @,
            !.in_think_disp = IF enable_thinking THEN TRUE ELSE @]

\* ai.py:710-718: the native thinking field.
ThinkStep(s, think_tok, enable_thinking) ==
    IF think_tok = <<>> THEN s
    ELSE [s EXCEPT
            !.full_thinking = @ \o think_tok,
            !.sink = IF enable_thinking
                     THEN @ \o (IF s.in_think_disp THEN <<>> ELSE <<"[Thinking] ">>)
                            \o think_tok
                     ELSE @,
            !.in_think_disp = IF enable_thinking THEN TRUE ELSE @]

\* An accumulation that keeps only the latest text-delta.
accumulate_last_only(s, text_tok) == [s EXCEPT !.full_text = text_tok]

\* ai.py:722: full_text += text_tok
AccumulateText(s, text_tok) == [s EXCEPT !.full_text = @ \o text_tok]

\* ai.py:723-763: the <think> tag state machine over one text token.
RECURSIVE TagLoop(_, _, _)
TagLoop(s, remaining, enable_thinking) ==
    IF remaining = <<>> THEN s
    ELSE IF s.is_thinking
    THEN LET close == Find(remaining, CLOSE_TAG) IN
         IF close # -1
         THEN LET before  == Take(remaining, close)
                  after0  == Drop(remaining, close + 7)
                  bracket == Find(after0, GT)
                  after   == IF bracket # -1 THEN Drop(after0, bracket + 1) ELSE <<>>
              IN  TagLoop([s EXCEPT
                              !.sink = @ \o (IF enable_thinking THEN before ELSE <<>>)
                                         \o <<"\n">>,
                              !.is_thinking = FALSE,
                              !.in_think_disp = FALSE],
                          after, enable_thinking)
         ELSE [s EXCEPT !.sink = @ \o (IF enable_thinking THEN remaining ELSE <<>>)]
    ELSE LET open_idx == Find(remaining, OPEN_TAG) IN
         IF open_idx # -1
         THEN LET before  == Take(remaining, open_idx)
                  after0  == Drop(remaining, open_idx + 6)
                  bracket == Find(after0, GT)
                  after   == IF bracket # -1 THEN Drop(after0, bracket + 1) ELSE <<>>
              IN  TagLoop([s EXCEPT
                              !.sink = @ \o before
                                         \o (IF enable_thinking THEN OPEN_TAG ELSE <<>>),
                              !.in_think_disp = IF enable_thinking THEN TRUE ELSE @,
                              !.is_thinking = TRUE],
                          after, enable_thinking)
         ELSE [s EXCEPT !.sink = @ \o remaining, !.in_think_disp = FALSE]

\* A display that writes every text token as it comes, tags and all.
text_step_untagged(s, text_tok, enable_thinking) ==
    IF text_tok = <<>> THEN s
    ELSE [AccumulateText(s, text_tok) EXCEPT !.sink = @ \o text_tok]

\* ai.py:720-763: a text token is accumulated, then displayed.
TextStep(s, text_tok, enable_thinking) ==
    IF text_tok = <<>> THEN s
    ELSE TagLoop(AccumulateText(s, text_tok), text_tok, enable_thinking)

\* ai.py:619-772: the body of the inner loop for one line.  brk says whether
\* the line ends the inner loop (break) or not (continue, or falling through),
\* raised whether the line raises an exception that stream_response does not
\* catch: obj.get at ai.py:640 raises AttributeError when obj is no dict.
ProcessLine(s, line, prov, enable_thinking) ==
    LET skip == [s |-> s, brk |-> FALSE, raised |-> FALSE]
        json_chunk == IF line.frame = "other" THEN "EMPTY" ELSE line.payload
    IN
    IF line.frame = "data" /\ line.payload = "DONE"
    THEN [s |-> s, brk |-> TRUE, raised |-> FALSE]
    ELSE IF json_chunk = "EMPTY" THEN skip
    ELSE IF json_chunk = "BAD" THEN skip
    ELSE IF json_chunk = "NONOBJ" THEN [s |-> s, brk |-> TRUE, raised |-> TRUE]
    ELSE IF json_chunk # "OBJ" THEN skip
    ELSE IF line.error # ""
    THEN [s |-> [s EXCEPT !.error_msg = "API error: " \o line.error],
          brk |-> TRUE, raised |-> FALSE]
    ELSE IF prov = "gemini" /\ line.block # ""
    THEN [s |-> [s EXCEPT !.error_msg = "Content blocked"],
          brk |-> TRUE, raised |-> FALSE]
    ELSE
    LET tok == Extract(prov, line)
        s1  == [s EXCEPT
                  !.finish_reason = IF tok.finish # "" /\ @ = "" THEN tok.finish ELSE @,
                  !.first_chunk = IF @ /\ (tok.text # <<>> \/ tok.think # <<>>)
                                  THEN FALSE ELSE @]
        s2  == ThinkStep(s1, tok.think, enable_thinking)
        s3  == TextStep(s2, tok.text, enable_thinking)
    IN
    IF prov = "gemini" /\ s3.finish_reason \in {"SAFETY", "RECITATION", "OTHER"}
    THEN [s |-> IF s3.full_text = <<>>
                THEN [s3 EXCEPT !.error_msg = "Stream ended by API"]
                ELSE s3,
          brk |-> TRUE, raised |-> FALSE]
    ELSE IF prov = "ollama" /\ s3.finish_reason = "stop"
    THEN [s |-> s3, brk |-> TRUE, raised |-> FALSE]
    ELSE [s |-> s3, brk |-> FALSE, raised |-> FALSE]

\* ai.py:617-772: the inner loop, `while "\n" in buffer`.  A break leaves the
\* lines after the current one in the buffer; so does an exception.
RECURSIVE ProcessBuffer(_, _, _, _)
ProcessBuffer(s, buf, prov, enable_thinking) ==
    IF buf = <<>> THEN [s |-> s, buffer |-> <<>>, raised |-> FALSE]
    ELSE LET r == ProcessLine(s, Head(buf), prov, enable_thinking) IN
         IF r.brk THEN [s |-> r.s, buffer |-> Tail(buf), raised |-> r.raised]
         ELSE ProcessBuffer(r.s, Tail(buf), prov, enable_thinking)

\* A post-stream step that returns the text it has although an error was captured.
post_stream_partial_on_error(s) ==
    LET clean == strip_think_tags(Take(s.full_text, MAX_MESSAGE_LENGTH))
    IN  IF clean # <<>> THEN Some(clean) ELSE None

\* A post-stream step that treats a safety block like an abnormal finish:
\* an error only when no text has been accumulated.
post_stream_block_needs_no_text(s) ==
    IF s.error_msg # "" /\ ~(s.error_msg = "Content blocked" /\ s.full_text # <<>>)
    THEN None
    ELSE LET clean == strip_think_tags(Take(s.full_text, MAX_MESSAGE_LENGTH))
         IN  IF clean # <<>> THEN Some(clean) ELSE None

\* A truncation that lets an oversized response through.
truncation_off(full_text) == full_text

\* ai.py:809-812: full_text after the truncation of an oversized response.
Truncated(full_text) ==
    IF Len(full_text) > MAX_MESSAGE_LENGTH
    THEN Take(full_text, MAX_MESSAGE_LENGTH) ELSE full_text

\* ai.py:801-815: the value stream_response returns.
PostStream(s) ==
    IF s.error_msg # "" THEN None
    ELSE LET clean == strip_think_tags(Truncated(s.full_text))
         IN  IF clean # <<>> THEN Some(clean) ELSE None

\* The locals when stream_response returns.
AtReturn(s) ==
    IF s.error_msg # "" THEN s ELSE [s EXCEPT !.full_text = Truncated(@)]

\* A commit that stores every reply in the Gemini shape.
commit_always_model(hist, result, is_openai_compat) ==
    IF ~result.none
    THEN Append(hist, Turn("model", result.text))
    ELSE Rollback(hist)

\* ai.py:1082-1091: chat_loop commits the reply or rolls the user turn back.
Commit(hist, result, is_openai_compat) ==
    IF ~result.none
    THEN Append(hist, Turn(ReplyRole(is_openai_compat), result.text))
    ELSE Rollback(hist)

(***************************************************************************)
(* The values of the variables a specification does not use.               *)
(***************************************************************************)
StripIdle ==
    /\ text_in = <<>>
    /\ stripped = <<>>
    /\ restripped = <<>>
    /\ strip_pc = "idle"

ConvIdle ==
    /\ conv = <<>>
    /\ conv_compat = FALSE
    /\ conv_out = <<>>
    /\ conv_op = "idle"

ChatIdle ==
    /\ provider = "gemini"
    /\ api_key = <<>>
    /\ enable_tools = FALSE
    /\ sigint_handler = "default"
    /\ pc = "idle"
    /\ history = <<>>
    /\ thinking_on = FALSE
    /\ first_msg = TRUE
    /\ image = 0
    /\ saved = [exists |-> FALSE, data |-> <<>>]
    /\ notice = ""
    /\ cycles = 0
    /\ body = <<>>
    /\ delivered = 0
    /\ buffer = <<>>
    /\ st = StreamStart
    /\ ai_text = None


WireIdle ==
    /\ wire = <<>>
    /\ wire_pos = 0
    /\ wire_buffer = <<>>
    /\ wire_text = <<>>
    /\ wire_pc = "idle"
(***************************************************************************)
(* The response bodies the server may send.                                *)
(***************************************************************************)
T_A     == <<"a">>
T_R     == <<"r">>
T_OPEN  == OPEN_TAG \o GT                                \* "<think>"
T_CLOSE == CLOSE_TAG \o GT                               \* "</think>"
T_HEL   == <<"H", "e", "l">>
T_LO    == <<"l", "o">>
T_HELLO == T_HEL \o T_LO
T_VIS   == <<"v", "i", "s">>
\* "<th", "ink>hidden</thi", "nk>vis"
T_SPLIT1 == <<"<", "t", "h">>
T_SPLIT2 == <<"i", "n", "k", ">", "h", "i", "d", "d", "e", "n", "<", "/", "t", "h", "i">>
T_SPLIT3 == <<"n", "k", ">">> \o T_VIS
\* "<think>h</think>v", cut into text-deltas at every place
T_TAGGED == T_OPEN \o <<"h">> \o T_CLOSE \o <<"v">>
\* A text-delta of more than half of MAX_MESSAGE_LENGTH characters.
T_BIG == [i \in 1..(MAX_MESSAGE_LENGTH \div 2 + 1) |-> "a"]

\* Ollama's protocol is newline-delimited JSON: its objects come unprefixed.
Framed(prov, b) ==
    [i \in DOMAIN b |->
        IF prov = "ollama" /\ b[i].frame = "data" /\ b[i].payload = "OBJ"
        THEN [b[i] EXCEPT !.frame = "brace"] ELSE b[i]]

\* The pieces of text t when it is cut after each position in cuts.
RECURSIVE Pieces(_, _, _, _)
Pieces(t, cuts, from, i) ==
    IF i >= Len(t) THEN <<SubSeq(t, from, Len(t))>>
    ELSE IF i \in cuts THEN <<SubSeq(t, from, i)>> \o Pieces(t, cuts, i + 1, i + 1)
    ELSE Pieces(t, cuts, from, i + 1)

\* Every way of sending text t as at most MaxDeltas text-deltas.
SplitBodies(t) ==
    {[j \in DOMAIN Pieces(t, cuts, 1, 1) |-> Delta(Pieces(t, cuts, 1, 1)[j])] :
        cuts \in {c \in SUBSET (1..(Len(t) - 1)) : Cardinality(c) < MaxDeltas}}

TaggedSplits == SplitBodies(T_TAGGED)

HelloBody == <<Delta(T_HEL), Delta(T_LO), Finish("stop"), Sentinel>>
SplitExampleBody == <<Delta(T_SPLIT1), Delta(T_SPLIT2), Delta(T_SPLIT3)>>
OversizedBody == <<Delta(T_BIG), Delta(T_BIG)>>
OversizedTaggedBody == <<Delta(T_BIG), Delta(T_OPEN), Delta(T_BIG), Delta(T_CLOSE)>>

\* The lines the bodies drawn line by line are made of.
GeneralLines(prov) ==
    {Delta(T_A), Delta(T_OPEN), Delta(T_CLOSE), ErrLine("E1")}
    \cup (CASE prov = "gemini" ->
                {Finish("STOP"), Finish("SAFETY"), BlockLine, RatingLine}
            [] prov = "ollama" -> {ThinkDelta(T_R), DoneFlag}
            [] OTHER -> {ThinkDelta(T_R), Finish("stop"), Sentinel})

NoiseLines == {Delta(T_A), BlankLine, BadJson, EmptyData, NonObject}

SeqsUpTo(S, n) == UNION {[1..k -> S] : k \in 0..n}

\* ai.py:766: Gemini's abnormal finish reasons.
AbnormalFinish == {"SAFETY", "RECITATION", "OTHER"}

\* Gemini bodies with an abnormal finish reason before, after, between and
\* on chunks of text.
AbnormalBodies ==
    UNION {{<<Finish(r)>>,
            <<Delta(T_A), Finish(r)>>,
            <<Finish(r), Delta(T_A)>>,
            <<Delta(T_A), Finish(r), Delta(T_A)>>,
            <<[Delta(T_A) EXCEPT !.finish = r]>>,
            <<Finish("STOP"), Finish(r)>>} : r \in AbnormalFinish}

\* The bodies of the specification of one request.
RichBodies(prov) ==
    {Framed(prov, b) :
        b \in SeqsUpTo(GeneralLines(prov), MaxLines)
              \cup SeqsUpTo(NoiseLines, MaxLines)
              \cup TaggedSplits
              \cup {SplitExampleBody, OversizedBody, OversizedTaggedBody}
              \cup (IF prov = "groq" THEN {HelloBody} ELSE {})
              \cup (IF prov = "gemini" THEN AbnormalBodies ELSE {})}

\* The bodies of the specification of a whole session: a reply, a reply that
\* is all reasoning, an error after some text, and an empty body.
PlainBodies(prov) ==
    {Framed(prov, b) :
        b \in {<<Delta(T_A), IF prov = "ollama" THEN DoneFlag ELSE Finish("stop")>>,
               <<Delta(T_OPEN), Delta(T_A)>>,
               <<Delta(T_A), ErrLine("E1")>>,
               <<>>}}

UserInputs == {<<"h", "i">>}

(***************************************************************************)
(* main (ai.py:1100-1196) and chat_loop (ai.py:932-1093).                  *)
(***************************************************************************)
Providers == {"gemini", "groq", "ollama"}

\* A key that check_placeholder_key accepts for every provider.
K_GOOD == <<"g", "s", "k", "_", "0", "1", "2", "3", "4", "5", "6", "7", "8", "9">>

\* The state when chat_loop reaches its first prompt: main has installed
\* _sigint_handler (ai.py:1189-1193), chat_loop has set up its state
\* (ai.py:932-935, ENABLE_THINKING_OUTPUT = True).
InitChat ==
    /\ provider \in Providers
    /\ api_key = K_GOOD
    /\ enable_tools = FALSE
    /\ sigint_handler = "exit130"
    /\ pc = "prompt"
    /\ history = init_history(IsOpenaiCompat(provider))
    /\ thinking_on = TRUE
    /\ first_msg = TRUE
    /\ image = 0
    /\ saved = [exists |-> FALSE, data |-> <<>>]
    /\ notice = ""
    /\ cycles = 0
    /\ body = <<>>
    /\ delivered = 0
    /\ buffer = <<>>
    /\ st = StreamStart
    /\ ai_text = None

Idle == UNCHANGED <<stripVars, wireVars, convVars, mainVars, saved, notice>>

\* ai.py:1056-1058: the default prompt when only an image is attached,
\* "Describe this image in detail.", shortened.
T_DESCRIBE == <<"D">>

\* ai.py:1052-1075: the history after a message has been submitted.
Submitted(user_input) ==
    truncate_history(
        Append(history,
               build_user_message(IF user_input = <<>> THEN T_DESCRIBE ELSE user_input,
                                  image, IsOpenaiCompat(provider), first_msg)),
        IsOpenaiCompat(provider))

\* ai.py:1052-1080, 578-603: a message is submitted, the request is sent and
\* the response opens; its body is b.
Submit(user_input, b) ==
    /\ pc = "prompt"
    /\ user_input # <<>> \/ image # 0
    /\ Len(user_input) <= MAX_MESSAGE_LENGTH
    /\ image' = 0
    /\ first_msg' = FALSE
    /\ history' = Submitted(user_input)
    /\ st' = StreamStart
    /\ body' = b
    /\ delivered' = 0
    /\ buffer' = <<>>
    /\ cycles' = cycles + 1
    /\ pc' = "streaming"
    /\ UNCHANGED <<provider, sigint_handler, thinking_on, ai_text>>
    /\ Idle

\* ai.py:779-803, 1082-1091: urlopen raises (HTTPError, URLError, OSError);
\* stream_response returns None and chat_loop rolls back.
SubmitConnectFails(user_input, err) ==
    /\ pc = "prompt"
    /\ user_input # <<>> \/ image # 0
    /\ Len(user_input) <= MAX_MESSAGE_LENGTH
    /\ image' = 0
    /\ first_msg' = FALSE
    /\ st' = [StreamStart EXCEPT !.error_msg = err]
    /\ ai_text' = PostStream(st')
    /\ history' = Commit(Submitted(user_input), ai_text', IsOpenaiCompat(provider))
    /\ body' = <<>>
    /\ delivered' = 0
    /\ buffer' = <<>>
    /\ cycles' = cycles + 1
    /\ UNCHANGED <<provider, sigint_handler, thinking_on, pc>>
    /\ Idle

\* A read loop that gives up on a line it cannot parse.
read_chunk_strict(k) ==
    /\ pc = "streaming"
    /\ k \in 1..(Len(body) - delivered)
    /\ LET new == SubSeq(body, delivered + 1, delivered + k)
           r == ProcessBuffer(st, buffer \o new, provider, thinking_on)
           bad == \E i \in DOMAIN new : new[i].payload = "BAD" \/ new[i].frame = "other"
       IN  /\ st' = IF bad THEN [r.s EXCEPT !.error_msg = "Parse error"] ELSE r.s
           /\ buffer' = r.buffer
           /\ pc' = IF r.raised THEN "crashed" ELSE pc
    /\ delivered' = delivered + k
    /\ UNCHANGED <<provider, sigint_handler, history, thinking_on, first_msg, image,
                   cycles, body, ai_text>>
    /\ Idle

\* ai.py:604-772: one pass of the read loop: a read hands over the next k
\* lines, and the inner loop processes the buffer.  An exception that no
\* except clause of stream_response, chat_loop or main catches ends the
\* process with a traceback.
ReadChunk(k) ==
    /\ pc = "streaming"
    /\ k \in 1..(Len(body) - delivered)
    /\ LET r == ProcessBuffer(st, buffer \o SubSeq(body, delivered + 1, delivered + k),
                              provider, thinking_on)
       IN  /\ st' = r.s
           /\ buffer' = r.buffer
           /\ pc' = IF r.raised THEN "crashed" ELSE pc
    /\ delivered' = delivered + k
    /\ UNCHANGED <<provider, sigint_handler, history, thinking_on, first_msg, image,
                   cycles, body, ai_text>>
    /\ Idle

\* ai.py:793-815, 1078-1093: stream_response returns with locals s, chat_loop
\* commits or rolls back and goes back to the prompt.
Return(s) ==
    /\ st' = AtReturn(s)
    /\ ai_text' = PostStream(s)
    /\ history' = Commit(history, PostStream(s), IsOpenaiCompat(provider))
    /\ pc' = "prompt"
    /\ UNCHANGED <<provider, sigint_handler, thinking_on, first_msg, image, cycles, netVars>>
    /\ Idle

\* ai.py:612-613: the read returns no bytes: the server closed the stream.
EndOfStream ==
    /\ pc = "streaming"
    /\ delivered = Len(body)
    /\ Return(st)

\* ai.py:788-791: a read raises OSError (a timeout, a reset connection).
ReadFails ==
    /\ pc = "streaming"
    /\ Return([st EXCEPT !.error_msg = "Connection error"])

\* ai.py:607, 774-791: a read raises an exception that is neither an OSError
\* nor a KeyboardInterrupt: http.client.IncompleteRead, when the server closes
\* a chunked body before its last chunk.  No except clause catches it.
ReadCrashes ==
    /\ pc = "streaming"
    /\ pc' = "crashed"
    /\ UNCHANGED <<provider, sigint_handler, history, thinking_on, first_msg, image,
                   cycles, netVars, st, ai_text>>
    /\ Idle

\* SIGINT while _read_chunk blocks.  Under main's handler (ai.py:1189-1191)
\* sys.exit(130) raises SystemExit, which no except clause of stream_response
\* or chat_loop catches; under Python's default handler KeyboardInterrupt is
\* caught at ai.py:608-611.
SigintAtRead ==
    /\ pc = "streaming"
    /\ IF sigint_handler = "exit130"
       THEN /\ pc' = "exited"
            /\ UNCHANGED <<provider, sigint_handler, history, thinking_on, first_msg, image,
                           cycles, netVars, st, ai_text>>
            /\ Idle
       ELSE Return([st EXCEPT !.interrupted = TRUE])

\* SIGINT while input() waits (ai.py:968-972).
SigintAtPrompt ==
    /\ pc = "prompt"
    /\ pc' = IF sigint_handler = "exit130" THEN "exited" ELSE "ended"
    /\ UNCHANGED <<provider, sigint_handler, history, thinking_on, first_msg, image,
                   cycles, netVars, st, ai_text>>
    /\ Idle

\* ai.py:1007-1011: /togglethinking
ToggleThinking ==
    /\ pc = "prompt"
    /\ thinking_on' = ~thinking_on
    /\ UNCHANGED <<provider, sigint_handler, pc, history, first_msg, image, cycles,
                   netVars, st, ai_text>>
    /\ Idle

\* ai.py:968-976: quit, exit or end of input.
Quit ==
    /\ pc = "prompt"
    /\ pc' = "ended"
    /\ UNCHANGED <<provider, sigint_handler, history, thinking_on, first_msg, image,
                   cycles, netVars, st, ai_text>>
    /\ Idle

ConnectErrors == {"HTTP", "Network error", "Connection error"}

Init == InitChat /\ StripIdle /\ ConvIdle /\ WireIdle

\* A session of up to MaxCycles requests.
Next ==
    \/ /\ pc = "prompt" /\ cycles < MaxCycles
       /\ \E t \in UserInputs, b \in PlainBodies(provider) : Submit(t, b)
    \/ /\ pc = "prompt" /\ cycles < MaxCycles
       /\ \E t \in UserInputs, e \in ConnectErrors : SubmitConnectFails(t, e)
    \/ \E k \in 1..Len(body) : ReadChunk(k)
    \/ EndOfStream
    \/ ReadFails
    \/ ReadCrashes
    \/ SigintAtRead
    \/ SigintAtPrompt
    \/ ToggleThinking
    \/ Quit

Spec == Init /\ [][Next]_vars

\* The first request of a session, over every response body of RichBodies.
NextStream ==
    \/ /\ pc = "prompt" /\ cycles = 0
       /\ \E t \in UserInputs, b \in RichBodies(provider) : Submit(t, b)
    \/ /\ pc = "prompt" /\ cycles = 0
       /\ \E t \in UserInputs, e \in ConnectErrors : SubmitConnectFails(t, e)
    \/ \E k \in 1..Len(body) : ReadChunk(k)
    \/ EndOfStream
    \/ ReadFails
    \/ ReadCrashes
    \/ SigintAtRead
    \/ SigintAtPrompt
    \/ ToggleThinking
    \/ Quit

SpecStream == Init /\ [][NextStream]_vars

(***************************************************************************)
(* main (ai.py:1100-1197) up to the call of chat_loop.                     *)
(***************************************************************************)
StartsWith(s, p) == Len(s) >= Len(p) /\ SubSeq(s, 1, Len(p)) = p
EndsWith(s, p) == Len(s) >= Len(p) /\ SubSeq(s, Len(s) - Len(p) + 1, Len(s)) = p

\* ai.py:175-199: TRUE when the key looks valid, FALSE (after a warning on
\* stderr) otherwise.
check_placeholder_key(key, prov) ==
    ~ \/ key = <<>>
      \/ StartsWith(key, <<"Y", "O", "U", "R", "_">>) \/ EndsWith(key, <<"-", "H", "E", "R", "E">>) \/ Contains(key, <<".", ".", ".">>)
      \/ prov = "gemini" /\ key = <<"-">>
      \/ prov = "openrouter" /\ key = <<"s", "k", "-", "o", "r", "-", "v", "1", "-">>
      \/ prov = "groq" /\ StartsWith(key, <<"g", "s", "k", "_">>) /\ Len(key) < 10
      \/ prov = "cerebras" /\ key = <<"c", "s", "k", "-">>
      \/ prov \in {"novita", "ollama"} /\ Len(key) < 10

\* The keys API_KEYS may be configured with.
K_YOUR == <<"Y", "O", "U", "R", "_", "K", "E", "Y">>
K_HERE == <<"K", "E", "Y", "-", "H", "E", "R", "E">>
K_DOTS == <<"s", "k", ".", ".", ".">>
K_DASH == <<"-">>
K_GSK  == <<"g", "s", "k", "_", "a", "b">>
K_SHORT == <<"a", "b", "c", "d", "e", "f">>
KeyConfigs == {<<>>, K_YOUR, K_HERE, K_DOTS, K_DASH, K_GSK, K_SHORT, K_GOOD}

\* What argv[0] may hold: a provider, nothing ("": no argument, -h or --help),
\* or a name that is no provider.
MainArgs == Providers \cup {"", "nosuch"}

\* The state when main starts: the configuration has been read.
InitMain ==
    /\ provider \in MainArgs
    /\ api_key \in KeyConfigs
    /\ enable_tools = FALSE
    /\ sigint_handler = "default"
    /\ pc = "main"
    /\ history = <<>>
    /\ thinking_on = FALSE
    /\ first_msg = TRUE
    /\ image = 0
    /\ saved = [exists |-> FALSE, data |-> <<>>]
    /\ notice = ""
    /\ cycles = 0
    /\ body = <<>>
    /\ delivered = 0
    /\ buffer = <<>>
    /\ st = StreamStart
    /\ ai_text = None
    /\ StripIdle
    /\ WireIdle
    /\ ConvIdle

MainFrame ==
    UNCHANGED <<provider, api_key, sigint_handler, history, thinking_on, first_msg,
                shellVars, cycles, netVars, st, ai_text, stripVars, wireVars, convVars>>

\* ai.py:1110-1122: argument parsing.
ParseArgs ==
    /\ pc = "main"
    /\ pc' = IF provider = "" THEN "exit0"
             ELSE IF provider \notin Providers THEN "exit1"
             ELSE "main_key"
    /\ UNCHANGED enable_tools
    /\ MainFrame

\* ai.py:1124-1129: the key check; main exits with status 1 when
\* check_placeholder_key returns False.
CheckKey ==
    /\ pc = "main_key"
    /\ pc' = IF ~check_placeholder_key(api_key, provider) THEN "exit1"
             ELSE IF provider = "gemini" THEN "main_tools"
             ELSE "main_fetch"
    /\ UNCHANGED enable_tools
    /\ MainFrame

\* ai.py:1133-1148: the Gemini tool-calling prompt; ans is the answer, "eof"
\* standing for EOFError or KeyboardInterrupt.
ToolsPrompt(ans) ==
    /\ pc = "main_tools"
    /\ pc' = IF ans = "eof" THEN "exit0"
             ELSE IF ans \in {"y", "n"} THEN "main_fetch"
             ELSE pc
    /\ enable_tools' = IF ans = "y" THEN TRUE ELSE enable_tools
    /\ MainFrame

\* ai.py:1150-1169: fetch_models, the filters and the automatic selection;
\* found is how many models are left ("none": fetch_models failed or returned
\* nothing, or no model matched the filters).
FetchModels(found) ==
    /\ pc = "main_fetch"
    /\ pc' = CASE found = "none" -> "exit1"
               [] found = "one" -> "main_start"
               [] OTHER -> "main_select"
    /\ UNCHANGED enable_tools
    /\ MainFrame

\* ai.py:1174-1182: the model selection prompt.
SelectModel(choice) ==
    /\ pc = "main_select"
    /\ pc' = CASE choice = "eof" -> "exit0"
               [] choice = "valid" -> "main_start"
               [] OTHER -> pc
    /\ UNCHANGED enable_tools
    /\ MainFrame

\* ai.py:1186-1196, 932-935: main installs _sigint_handler and calls
\* chat_loop, which sets up its state and reaches its first prompt.
StartChat ==
    /\ pc = "main_start"
    /\ sigint_handler' = "exit130"
    /\ history' = init_history(IsOpenaiCompat(provider))
    /\ thinking_on' = TRUE
    /\ first_msg' = TRUE
    /\ pc' = "prompt"
    /\ UNCHANGED <<provider, mainVars, shellVars, cycles, netVars, st, ai_text,
                   stripVars, wireVars, convVars>>

NextMain ==
    \/ ParseArgs
    \/ CheckKey
    \/ \E ans \in {"y", "n", "eof", "other"} : ToolsPrompt(ans)
    \/ \E found \in {"none", "one", "many"} : FetchModels(found)
    \/ \E choice \in {"valid", "eof", "other"} : SelectModel(choice)
    \/ StartChat

SpecMain == InitMain /\ [][NextMain]_vars


(***************************************************************************)
(* The slash commands of chat_loop and its input guards.                   *)
(***************************************************************************)
\* ai.py:166: the characters of [a-zA-Z0-9_-].
NameChars ==
    {"a", "b", "c", "d", "e", "f", "g", "h", "i", "j", "k", "l", "m",
     "n", "o", "p", "q", "r", "s", "t", "u", "v", "w", "x", "y", "z",
     "A", "B", "C", "D", "E", "F", "G", "H", "I", "J", "K", "L", "M",
     "N", "O", "P", "Q", "R", "S", "T", "U", "V", "W", "X", "Y", "Z",
     "0", "1", "2", "3", "4", "5", "6", "7", "8", "9", "_", "-"}

\* ai.py:169: the longest session name.
MaxNameLen == 100

\* ai.py:165-172
validate_session_name(name) ==
    /\ name # <<>>
    /\ Len(name) <= MaxNameLen
    /\ \A i \in 1..Len(name) : name[i] \in NameChars

\* A name one character longer than validate_session_name accepts.
N_LONG == [i \in 1..(MaxNameLen + 1) |-> "a"]

\* Arguments of /save and /load: none, "s1", "bad n", "../x", and N_LONG.
SessionNames ==
    {<<>>, <<"s", "1">>, <<"b", "a", "d", " ", "n">>, <<".", ".", "/", "x">>, N_LONG}

\* A message one character longer than chat_loop accepts.
T_LONG == [i \in 1..(MAX_MESSAGE_LENGTH + 1) |-> "x"]

\* What the prompt reads in a session with slash commands.
ShellInputs == UserInputs \cup {<<>>, T_LONG}

\* What /load finds under a valid name: no file, the file /save wrote, a file
\* that is not JSON, JSON of the wrong shape, bytes that are not UTF-8.
SessionFiles == {"missing", "saved", "not_json", "bad_shape", "not_utf8"}

\* What /upload finds: an image, a file image.load rejects (missing, too
\* large, unsupported type, unreadable), an image file of zero bytes.
UploadFiles == {"image", "rejected", "empty"}

ShellFrame ==
    UNCHANGED <<provider, sigint_handler, thinking_on, cycles, netVars, st, ai_text,
                stripVars, wireVars, convVars, mainVars>>

\* ai.py:1052-1064: an empty line without an image is skipped, a message
\* longer than MAX_MESSAGE_LENGTH is refused.
RejectInput(user_input) ==
    /\ pc = "prompt"
    /\ LET text == IF user_input = <<>> /\ image # 0 THEN T_DESCRIBE ELSE user_input
       IN  /\ text = <<>> \/ Len(text) > MAX_MESSAGE_LENGTH
           /\ notice' = IF text = <<>> THEN notice ELSE "message"
    /\ UNCHANGED <<pc, history, first_msg, image, saved>>
    /\ ShellFrame

\* ai.py:988-993, 265-302: /upload <path>.  attached is bool(base64), so a
\* file of zero bytes is stored and leaves nothing attached.  An image is
\* numbered by the request it waits for: a later /upload replaces it.
Upload(file) ==
    /\ pc = "prompt"
    /\ IF file = "image"
       THEN /\ image' = cycles + 1
            /\ notice' = ""
       ELSE IF file = "empty"
       THEN /\ image' = 0
            /\ notice' = ""
       ELSE /\ UNCHANGED image
            /\ notice' = "image"
    /\ UNCHANGED <<pc, history, first_msg, saved>>
    /\ ShellFrame

\* ai.py:1002-1005: /clearimage
ClearImage ==
    /\ pc = "prompt"
    /\ image' = 0
    /\ notice' = ""
    /\ UNCHANGED <<pc, history, first_msg, saved>>
    /\ ShellFrame

\* ai.py:1027-1032, 313-320: /save <name>; written tells whether write_text
\* succeeded.
SaveSession(name, written) ==
    /\ pc = "prompt"
    /\ IF name = <<>>
       THEN notice' = "name" /\ UNCHANGED saved
       ELSE IF ~validate_session_name(name)
       THEN notice' = "name" /\ UNCHANGED saved
       ELSE IF ~written
       THEN notice' = "write" /\ UNCHANGED saved
       ELSE notice' = "" /\ saved' = [exists |-> TRUE, data |-> history]
    /\ UNCHANGED <<pc, history, first_msg, image>>
    /\ ShellFrame

\* The call does not return: an exception leaves it.
Raised == [none |-> TRUE, text |-> <<"raised">>]

\* A load_session that accepts whatever JSON the file holds.
load_session_unvalidated(file) ==
    IF file = "missing" \/ (file = "saved" /\ ~saved.exists) THEN None
    ELSE IF file = "not_utf8" THEN Raised
    ELSE IF file = "not_json" THEN None
    ELSE IF file = "bad_shape" THEN Some(<<>>)
    ELSE Some(saved.data)

\* ai.py:346-362: load_session on the file found under a valid name: the
\* history, None, or Raised when read_text raises UnicodeDecodeError, which
\* the except clause (OSError, json.JSONDecodeError) does not catch.
load_session(file) ==
    IF file = "missing" \/ (file = "saved" /\ ~saved.exists) THEN None
    ELSE IF file = "not_utf8" THEN Raised
    ELSE IF file = "not_json" \/ file = "bad_shape" THEN None
    ELSE Some(saved.data)

\* ai.py:1034-1042: /load <name>
LoadSession(name, file) ==
    /\ pc = "prompt"
    /\ IF name = <<>>
       THEN notice' = "name" /\ UNCHANGED <<pc, history, first_msg>>
       ELSE IF ~validate_session_name(name)
       THEN notice' = "name" /\ UNCHANGED <<pc, history, first_msg>>
       ELSE LET loaded == load_session(file)
            IN  IF ~loaded.none
                THEN /\ history' = loaded.text
                     /\ first_msg' = FALSE
                     /\ notice' = ""
                     /\ UNCHANGED pc
                ELSE IF loaded = None
                THEN /\ notice' = "session"
                     /\ UNCHANGED <<pc, history, first_msg>>
                ELSE /\ pc' = "crashed"
                     /\ UNCHANGED <<notice, history, first_msg>>
    /\ UNCHANGED <<image, saved>>
    /\ ShellFrame

\* Response bodies of a session with slash commands: a reply, and a failure.
ShellBodies(prov) ==
    {Framed(prov, b) :
        b \in {<<Delta(T_A), IF prov = "ollama" THEN DoneFlag ELSE Finish("stop")>>,
               <<ErrLine("E1")>>}}

\* A session of up to MaxShellCycles requests with slash commands.
NextShell ==
    \/ /\ pc = "prompt" /\ cycles < MaxShellCycles
       /\ \E t \in ShellInputs, b \in ShellBodies(provider) : Submit(t, b)
    \/ /\ pc = "prompt" /\ cycles < MaxShellCycles
       /\ \E t \in ShellInputs, e \in ConnectErrors : SubmitConnectFails(t, e)
    \/ \E t \in ShellInputs : RejectInput(t)
    \/ \E f \in UploadFiles : Upload(f)
    \/ ClearImage
    \/ \E n \in SessionNames, w \in BOOLEAN : SaveSession(n, w)
    \/ \E n \in SessionNames, f \in SessionFiles : LoadSession(n, f)
    \/ \E k \in 1..Len(body) : ReadChunk(k)
    \/ EndOfStream
    \/ ReadFails
    \/ ReadCrashes
    \/ SigintAtRead
    \/ SigintAtPrompt
    \/ ToggleThinking
    \/ Quit

SpecShell == Init /\ [][NextShell]_vars

(***************************************************************************)
(* The read loop at the level of bytes.  A text is a sequence of code      *)
(* points, the response body a sequence of bytes 0..255.                   *)
(***************************************************************************)
REPLACEMENT == 65533   \* U+FFFD
NEWLINE == 10
QUOTE == 34

\* The UTF-8 bytes of one code point, as the server puts them on the wire.
encode_char(cp) ==
    IF cp < 128 THEN <<cp>>
    ELSE IF cp < 2048 THEN <<192 + (cp \div 64), 128 + (cp % 64)>>
    ELSE IF cp < 65536
         THEN <<224 + (cp \div 4096), 128 + ((cp \div 64) % 64), 128 + (cp % 64)>>
    ELSE <<240 + (cp \div 262144), 128 + ((cp \div 4096) % 64),
           128 + ((cp \div 64) % 64), 128 + (cp % 64)>>

RECURSIVE encode(_)
encode(text) ==
    IF text = <<>> THEN <<>> ELSE encode_char(Head(text)) \o encode(Tail(text))

\* How many bytes a character that starts with byte b has; 0 when b cannot
\* start a character.
CharLen(b) ==
    IF b < 128 THEN 1
    ELSE IF b \in 194..223 THEN 2
    ELSE IF b \in 224..239 THEN 3
    ELSE IF b \in 240..244 THEN 4
    ELSE 0

\* How many of the bytes from raw[1] on belong to one character: the first
\* byte and the continuation bytes that follow it, at most CharLen of them.
RECURSIVE Subpart(_, _, _)
Subpart(raw, n, have) ==
    IF have < n /\ have < Len(raw) /\ raw[have + 1] \in 128..191
    THEN Subpart(raw, n, have + 1)
    ELSE have

CodePoint(raw, n) ==
    IF n = 1 THEN raw[1]
    ELSE IF n = 2 THEN (raw[1] - 192) * 64 + (raw[2] - 128)
    ELSE IF n = 3 THEN (raw[1] - 224) * 4096 + (raw[2] - 128) * 64 + (raw[3] - 128)
    ELSE (raw[1] - 240) * 262144 + (raw[2] - 128) * 4096 + (raw[3] - 128) * 64
         + (raw[4] - 128)

\* ai.py:614: raw.decode("utf-8", errors="replace") on the bytes of ONE read.
\* A whole character gives its code point; a byte that cannot start a
\* character, and a character cut short by the end of the read or by a byte
\* that does not continue it, give one U+FFFD each.  (The bytes here come
\* from encode, so a continuation byte is always in the range its first byte
\* allows.)
RECURSIVE decode(_)
decode(raw) ==
    IF raw = <<>> THEN <<>>
    ELSE LET n == CharLen(raw[1])
             have == Subpart(raw, n, 1)
         IN  IF n = 0 THEN <<REPLACEMENT>> \o decode(Tail(raw))
             ELSE IF have = n THEN <<CodePoint(raw, n)>> \o decode(Drop(raw, n))
             ELSE <<REPLACEMENT>> \o decode(Drop(raw, have))

\* The texts of a text-delta, of characters a, e-acute, the euro sign and
\* an emoji, of one, two, three and four bytes.
WireTexts == UNION {[1..n -> {97, 233, 8364, 128512}] : n \in 1..MaxChars}

\* One text-delta line on the wire.  Its envelope
\* data: {"choices":[{"delta":{"content":"   ...   "}}]}
\* is ASCII; it is written here as the two quotes around the text.
WireLine(text) == <<QUOTE>> \o encode(text) \o <<QUOTE, NEWLINE>>

\* ai.py:621-636, 692-718: the text of a text-delta line, None for a line
\* that is skipped.
LineText(line) ==
    IF Len(line) >= 2 /\ line[1] = QUOTE /\ line[Len(line)] = QUOTE
    THEN Some(SubSeq(line, 2, Len(line) - 1))
    ELSE None

\* ai.py:617-718: split the buffer on newlines, accumulate each line's text,
\* keep the incomplete tail.
RECURSIVE SplitLines(_, _)
SplitLines(buf, full_text) ==
    LET i == Find(buf, <<NEWLINE>>)
    IN  IF i = -1 THEN [buffer |-> buf, full_text |-> full_text]
        ELSE LET t == LineText(Take(buf, i))
             IN  SplitLines(Drop(buf, i + 1),
                            IF t.none THEN full_text ELSE full_text \o t.text)

InitDecode ==
    /\ \E text \in WireTexts : wire = WireLine(text)
    /\ wire_pos = 0
    /\ wire_buffer = <<>>
    /\ wire_text = <<>>
    /\ wire_pc = "reading"
    /\ StripIdle
    /\ ConvIdle
    /\ ChatIdle

\* ai.py:604-619, 239-245: one read hands over the next k bytes (read1 gives
\* what has arrived, the read(1) fallback one byte); they are decoded on
\* their own and appended to the buffer, then the buffer is split.
ReadBytes(k) ==
    /\ wire_pc = "reading"
    /\ k \in 1..(Len(wire) - wire_pos)
    /\ LET raw == SubSeq(wire, wire_pos + 1, wire_pos + k)
           r == SplitLines(wire_buffer \o decode(raw), wire_text)
       IN  /\ wire_buffer' = r.buffer
           /\ wire_text' = r.full_text
    /\ wire_pos' = wire_pos + k
    /\ UNCHANGED <<wire, wire_pc, stripVars, convVars, chatVars>>

\* ai.py:612-613, 793-815: an empty read ends the loop; the accumulated text
\* is returned.
EndOfBytes ==
    /\ wire_pc = "reading"
    /\ wire_pos = Len(wire)
    /\ wire_pc' = "returned"
    /\ UNCHANGED <<wire, wire_pos, wire_buffer, wire_text, stripVars, convVars, chatVars>>

NextDecode ==
    \/ \E k \in 1..(MaxChars * 4 + 3) : ReadBytes(k)
    \/ EndOfBytes

SpecDecode == InitDecode /\ [][NextDecode]_vars
(***************************************************************************)
(* The tag stripper applied to drawn inputs.  An input is a sequence of    *)
(* fragments; its text is their concatenation.                             *)
(***************************************************************************)
F_A      == <<"a">>
F_OPEN   == OPEN_TAG
F_OPENGT == OPEN_TAG \o GT
F_CLOSE  == CLOSE_TAG
F_CLOSEGT == CLOSE_TAG \o GT
F_TH     == <<"<", "t", "h">>
F_INK    == <<"i", "n", "k">>

Fragments == {F_A, GT, F_OPEN, F_OPENGT, F_CLOSE, F_CLOSEGT, F_TH, F_INK}

FragSeqs == UNION {[1..n -> Fragments] : n \in 0..MaxFrags}

TextOf(frags) == Flatten(frags)

InitStrip ==
    /\ text_in \in FragSeqs
    /\ stripped = <<>>
    /\ restripped = <<>>
    /\ strip_pc = "input"
    /\ ConvIdle
    /\ ChatIdle
    /\ WireIdle

StripOnce ==
    /\ strip_pc = "input"
    /\ stripped' = strip_think_tags(TextOf(text_in))
    /\ strip_pc' = "once"
    /\ UNCHANGED <<text_in, restripped, convVars, chatVars, wireVars>>

StripTwice ==
    /\ strip_pc = "once"
    /\ restripped' = strip_think_tags(stripped)
    /\ strip_pc' = "twice"
    /\ UNCHANGED <<text_in, stripped, convVars, chatVars, wireVars>>

NextStrip == StripOnce \/ StripTwice

SpecStrip == InitStrip /\ [][NextStrip]_vars

(***************************************************************************)
(* truncate_history and the rollback applied to drawn conversations.  The  *)
(* i-th turn of a drawn conversation has the text Label[i], so that turns  *)
(* can be told apart.                                                      *)
(***************************************************************************)
Label == <<"1", "2", "3", "4", "5", "6", "7", "8", "9">>

ConvInputs(is_openai_compat) ==
    UNION {{[i \in 1..n |-> Turn(roles[i], <<Label[i]>>)] :
                roles \in [1..n -> {"system", "user", ReplyRole(is_openai_compat)}]} :
           n \in 0..MaxConv}

InitHistory ==
    /\ conv_compat \in BOOLEAN
    /\ conv \in ConvInputs(conv_compat)
    /\ conv_out = <<>>
    /\ conv_op = "none"
    /\ StripIdle
    /\ WireIdle
    /\ ChatIdle

ApplyTruncate ==
    /\ conv_op = "none"
    /\ conv_out' = truncate_history(conv, conv_compat)
    /\ conv_op' = "truncate"
    /\ UNCHANGED <<conv, conv_compat, stripVars, wireVars, chatVars>>

ApplyRollback ==
    /\ conv_op = "none"
    /\ conv_out' = Rollback(conv)
    /\ conv_op' = "rollback"
    /\ UNCHANGED <<conv, conv_compat, stripVars, wireVars, chatVars>>

\* ai.py:578: stream_response builds the payload from the conversation.
ApplyPayload ==
    /\ conv_op = "none"
    /\ conv_out' = build_payload(conv, conv_compat)
    /\ conv_op' = "payload"
    /\ UNCHANGED <<conv, conv_compat, stripVars, wireVars, chatVars>>

NextHistory == ApplyTruncate \/ ApplyRollback \/ ApplyPayload

SpecHistory == InitHistory /\ [][NextHistory]_vars

\* C1: strip_think_tags is idempotent: stripping a stripped string changes
\* nothing, also when removing a region joins the text around it into a new
\* "<think" marker.
C1_StripIdempotent == strip_pc = "twice" => restripped = stripped

(***************************************************************************)
(* A left-to-right reading of an input's fragments as a tag lexer reads    *)
(* them, without the stripper's searches.  mode is "out" (plain text),     *)
(* "attr" (inside an opening tag, before its ">"), "in" (inside a region)  *)
(* or "cattr" (inside a closing tag, before its ">"); `plain` is the text  *)
(* read in mode "out".  "<th" directly followed by "ink" reads as "<think".*)
(***************************************************************************)
HasGT(f) == f \in {GT, F_OPENGT, F_CLOSEGT}

RECURSIVE RefPrefix(_, _, _)
RefPrefix(frags, mode, plain) ==
    IF frags = <<>> THEN [mode |-> mode, plain |-> plain]
    ELSE LET f == Head(frags)
             rest == Tail(frags)
         IN  CASE mode = "out" ->
                    IF f = F_OPENGT THEN RefPrefix(rest, "in", plain)
                    ELSE IF f = F_OPEN THEN RefPrefix(rest, "attr", plain)
                    ELSE IF f = F_TH /\ rest # <<>> /\ Head(rest) = F_INK
                    THEN RefPrefix(Tail(rest), "attr", plain)
                    ELSE RefPrefix(rest, "out", plain \o f)
               [] mode = "attr" ->
                    RefPrefix(rest, IF HasGT(f) THEN "in" ELSE "attr", plain)
               [] mode = "in" ->
                    RefPrefix(rest, IF f = F_CLOSEGT THEN "out"
                                    ELSE IF f = F_CLOSE THEN "cattr"
                                    ELSE "in", plain)
               [] OTHER ->
                    RefPrefix(rest, IF HasGT(f) THEN "out" ELSE "cattr", plain)

\* Position k of the input holds an opening tag ("<think", "<think>", or
\* "<th" "ink") that the reading meets in plain text, hence outside every
\* earlier region and tag, and no closing tag follows it.
UnclosedAt(k) ==
    /\ k \in 1..Len(text_in)
    /\ \/ text_in[k] \in {F_OPEN, F_OPENGT}
       \/ text_in[k] = F_TH /\ k < Len(text_in) /\ text_in[k + 1] = F_INK
    /\ RefPrefix(SubSeq(text_in, 1, k - 1), "out", <<>>).mode = "out"
    /\ ~Contains(TextOf(SubSeq(text_in, k + 1, Len(text_in))), CLOSE_TAG)

\* C2: for an input with an opening "<think" tag that no closing tag follows,
\* strip_think_tags returns exactly the text before that tag, with the earlier
\* complete regions removed; strip_think_tags("a<think>a") is "a".
C2_UnclosedDropsRest ==
    strip_pc # "input" =>
        \A k \in 1..Len(text_in) :
            UnclosedAt(k) =>
                stripped = RefPrefix(SubSeq(text_in, 1, k - 1), "out", <<>>).plain

\* "<think></think>a<think>" has been stripped to "a".
C2_Witness ==
    /\ strip_pc = "once"
    /\ text_in = <<F_OPENGT, F_CLOSEGT, F_A, F_OPENGT>>
    /\ UnclosedAt(4)
    /\ stripped = F_A

\* C3: under the alternation-required family (Gemini), a conversation with a
\* leading system turn followed by N turns, N even and N > the limit, is
\* trimmed to a conversation whose length minus one is even: an even number
\* of turns is removed, from the front.
C3_TrimKeepsParity ==
    (/\ conv_op = "truncate"
     /\ ~conv_compat
     /\ conv # <<>>
     /\ conv[1].role = "system"
     /\ (Len(conv) - 1) % 2 = 0
     /\ Len(conv) - 1 > MAX_HISTORY_MESSAGES)
    => /\ (Len(conv_out) - 1) % 2 = 0
       /\ (Len(conv) - Len(conv_out)) % 2 = 0
       /\ conv_out = Drop(conv, Len(conv) - Len(conv_out))

\* A Gemini conversation of a system turn and an even number of turns above
\* the limit has been trimmed, and the pairing made the trim remove one turn
\* more than the excess.
C3_Witness ==
    /\ conv_op = "truncate"
    /\ ~conv_compat
    /\ conv # <<>>
    /\ conv[1].role = "system"
    /\ (Len(conv) - 1) % 2 = 0
    /\ Len(conv) - 1 > MAX_HISTORY_MESSAGES
    /\ Len(conv) - Len(conv_out) = Len(conv) - MAX_HISTORY_MESSAGES + 1

\* C4: the rollback changes nothing unless the last turn's role is user (an
\* empty conversation included); on a conversation ending in a user turn it
\* removes exactly that turn and leaves the earlier turns as they were.
C4_RollbackOnlyUser ==
    conv_op = "rollback" =>
        IF conv # <<>> /\ conv[Len(conv)].role = "user"
        THEN /\ Len(conv_out) = Len(conv) - 1
             /\ \A i \in 1..Len(conv_out) : conv_out[i] = conv[i]
        ELSE conv_out = conv

\* The rollback has acted on a conversation ending in a reply and left it alone.
C4_Witness ==
    /\ conv_op = "rollback"
    /\ Len(conv) = 2
    /\ conv[2].role = "assistant"
    /\ conv_out = conv

(***************************************************************************)
(* Claims about one request (SpecStream).                                  *)
(***************************************************************************)
\* The text the text-deltas of a body carry, concatenated.
BodyText(b) == Flatten([i \in DOMAIN b |-> b[i].content])

\* This step is stream_response returning without an error, every line of the
\* body having been processed.
ReturnsClean ==
    /\ pc = "streaming"
    /\ pc' = "prompt"
    /\ st'.error_msg = ""
    /\ delivered = Len(body)
    /\ buffer = <<>>

\* C5 as stated: with reasoning display off, the text stream_response returns
\* is strip_think_tags of the concatenation of the text-deltas, however the
\* text is split into deltas (no text standing for the empty text).
C5_Original ==
    [][(ReturnsClean /\ ~thinking_on)
        => ai_text'.text = strip_think_tags(BodyText(body))]_vars

\* C5 as amended: with reasoning display off, for a text of at most
\* MAX_MESSAGE_LENGTH characters, the text stream_response returns is
\* strip_think_tags of the concatenation of the text-deltas (no text when that
\* is empty), however the text is split into deltas; "<th", "ink>hidden</thi",
\* "nk>vis" returns "vis".
C5_SplitIndependent ==
    [][(ReturnsClean /\ ~thinking_on /\ Len(BodyText(body)) <= MAX_MESSAGE_LENGTH)
        => /\ ai_text'.text = strip_think_tags(BodyText(body))
           /\ ai_text'.none = (strip_think_tags(BodyText(body)) = <<>>)
           /\ body = Framed(provider, SplitExampleBody) => ai_text' = Some(T_VIS)]_vars

\* "<th", "ink>hidden</thi", "nk>vis" has been streamed with reasoning display
\* off and "vis" returned.
C5_Witness ==
    /\ pc = "prompt"
    /\ cycles = 1
    /\ ~thinking_on
    /\ body = Framed(provider, SplitExampleBody)
    /\ delivered = Len(body)
    /\ st.error_msg = ""
    /\ st.full_text = T_SPLIT1 \o T_SPLIT2 \o T_SPLIT3
    /\ ai_text = Some(T_VIS)

\* The line carries an object-level error.
IsErrorLine(line) == line.frame # "other" /\ line.payload = "OBJ" /\ line.error # ""

\* C6 as stated: if any line the stream has delivered carries an object-level
\* error, stream_response returns no text and chat_loop commits no assistant
\* turn (it drops the user turn).
C6_Original ==
    [][(/\ pc = "streaming"
        /\ pc' = "prompt"
        /\ \E i \in 1..delivered : IsErrorLine(body[i]))
        => /\ ai_text' = None
           /\ history' = SubSeq(history, 1, Len(history) - 1)]_vars

\* C6 as amended: if a line that stream_response parses carries an
\* object-level error (it parses every line it has read but those still in
\* its buffer), the error is captured and never cleared, stream_response
\* returns no text and chat_loop commits no assistant turn (it drops the user
\* turn), also when earlier lines had produced text.
C6_ErrorYieldsNoText ==
    [][pc = "streaming"
        => /\ (\E i \in 1..(delivered' - Len(buffer')) : IsErrorLine(body'[i]))
                => st'.error_msg # ""
           /\ st.error_msg # "" => st'.error_msg # ""
           /\ (pc' = "prompt" /\ st'.error_msg # "")
                => /\ ai_text' = None
                   /\ history' = SubSeq(history, 1, Len(history) - 1)]_vars

\* A request whose stream carried text and then an error line is over: no
\* text was returned and the conversation is the initial one again.
C6_Witness ==
    /\ pc = "prompt"
    /\ cycles = 1
    /\ st.error_msg = "API error: E1"
    /\ st.full_text # <<>>
    /\ st.sink # <<>>
    /\ ai_text = None
    /\ history = init_history(IsOpenaiCompat(provider))

\* C7: family B over SSE: the body "Hel", "lo", finish_reason "stop",
\* "[DONE]" returns "Hello", records the finish signal "stop", and the
\* conversation gains exactly one assistant turn "Hello" after the user turn.
C7_HelloEndToEnd ==
    [][(ReturnsClean /\ provider = "groq" /\ body = HelloBody)
        => /\ ai_text' = Some(T_HELLO)
           /\ st'.finish_reason = "stop"
           /\ history[Len(history)].role = "user"
           /\ history' = Append(history, Turn("assistant", T_HELLO))]_vars

\* The Hello body has been streamed and committed.
C7_Witness ==
    /\ pc = "prompt"
    /\ provider = "groq"
    /\ body = HelloBody
    /\ st.finish_reason = "stop"
    /\ ai_text = Some(T_HELLO)
    /\ history = <<Turn("system", SYSTEM_PROMPT), Turn("user", <<"h", "i">>),
                   Turn("assistant", T_HELLO)>>

IsReply(turn) == turn.role \in {"assistant", "model"}

\* C8: a visible buffer longer than MAX_MESSAGE_LENGTH is truncated to exactly
\* MAX_MESSAGE_LENGTH characters, the returned text is the stripped truncated
\* buffer (the truncated buffer itself when it holds no tag) and is what the
\* assistant turn stores; no assistant turn of the conversation is longer
\* than MAX_MESSAGE_LENGTH.
C8_OversizedTruncated ==
    [][/\ \A i \in DOMAIN history' :
            IsReply(history'[i]) => Len(history'[i].content) <= MAX_MESSAGE_LENGTH
       /\ (pc = "streaming" /\ pc' = "prompt" /\ st'.error_msg = ""
             /\ Len(st.full_text) > MAX_MESSAGE_LENGTH)
            => /\ Len(st'.full_text) = MAX_MESSAGE_LENGTH
               /\ st'.full_text = Take(st.full_text, MAX_MESSAGE_LENGTH)
               /\ ai_text'.text = strip_think_tags(st'.full_text)
               /\ ~Contains(st'.full_text, OPEN_TAG)
                    => /\ ai_text' = Some(st'.full_text)
                       /\ history'[Len(history')] =
                            Turn(ReplyRole(IsOpenaiCompat(provider)), st'.full_text)]_vars

\* An oversized body without tags has been streamed: the buffer was cut to
\* MAX_MESSAGE_LENGTH characters and stored as the reply.
C8_Witness ==
    /\ pc = "prompt"
    /\ body = Framed(provider, OversizedBody)
    /\ Len(BodyText(body)) > MAX_MESSAGE_LENGTH
    /\ Len(st.full_text) = MAX_MESSAGE_LENGTH
    /\ ai_text = Some(st.full_text)
    /\ history[Len(history)] = Turn(ReplyRole(IsOpenaiCompat(provider)), st.full_text)

\* C9: a SIGINT raised while a read of the stream blocks never aborts the
\* process: stream_response returns and chat_loop is back at its prompt.
C9_InterruptKeepsSession == [][SigintAtRead => pc' = "prompt"]_vars

\* C10: a SIGINT at a read, after text has been accumulated and with no error
\* captured, keeps the text: stream_response returns the stripped accumulated
\* text and chat_loop commits it as the reply after the user turn.
C10_InterruptKeepsText ==
    [][(/\ SigintAtRead
        /\ st.error_msg = ""
        /\ strip_think_tags(Truncated(st.full_text)) # <<>>)
        => /\ ai_text' = Some(strip_think_tags(Truncated(st.full_text)))
           /\ history' = Append(history,
                                Turn(ReplyRole(IsOpenaiCompat(provider)),
                                     strip_think_tags(Truncated(st.full_text))))]_vars

(***************************************************************************)
(* Claims about failures and the session loop.                             *)
(***************************************************************************)
\* This step is a transport failure of the streaming exchange: urlopen
\* raises, or a read of the stream raises.
TransportFailure ==
    \/ \E t \in UserInputs, e \in ConnectErrors : SubmitConnectFails(t, e)
    \/ ReadFails
    \/ ReadCrashes

\* C11: a timeout or another transport failure at any point of the streaming
\* exchange is reported as an error: stream_response returns no text, no
\* assistant turn is appended, the user turn of the request is dropped and
\* chat_loop is at its prompt.
C11_TransportFailureRollsBack ==
    [][TransportFailure
        => /\ pc' = "prompt"
           /\ ai_text' = None
           /\ history' = IF pc = "streaming"
                         THEN SubSeq(history, 1, Len(history) - 1)
                         ELSE history]_vars

\* C12: a missing or placeholder API key only produces a warning: after the
\* key check main goes on to the tool prompt or the model fetch, whatever
\* check_placeholder_key returned.
C12_BadKeyOnlyWarns ==
    [][(CheckKey /\ ~check_placeholder_key(api_key, provider))
        => pc' \in {"main_tools", "main_fetch"}]_vars

\* C13: errors never terminate the session loop: a request in progress ends
\* with chat_loop back at its prompt, whatever lines the stream delivered and
\* however it failed; the session ends only at the prompt, on quit, exit,
\* end of input or an interrupt.
C13_ErrorsKeepSession ==
    [][/\ pc = "streaming" => pc' \in {"streaming", "prompt"}
       /\ pc' \in {"ended", "exited", "crashed"}
            => pc = "prompt" /\ (Quit \/ SigintAtPrompt)]_vars

\* C14: in a session started from init_history, whenever chat_loop is at its
\* prompt the conversation does not end with a user turn, whatever request
\* cycles came before.
C14_NoDanglingUserTurn ==
    pc = "prompt" => (history = <<>> \/ history[Len(history)].role # "user")

\* chat_loop is back at its prompt after a request that failed with an error,
\* which followed a request that succeeded: the conversation ends with the
\* earlier reply.
C14_Witness ==
    /\ pc = "prompt"
    /\ cycles >= 2
    /\ st.error_msg # ""
    /\ ai_text = None
    /\ history # <<>>
    /\ IsReply(history[Len(history)])


\* A step of chat_loop that turns its input down: a message that is too long,
\* a session name validate_session_name refuses, a session file that is
\* missing, is not JSON, has the wrong shape or is not UTF-8.
ValidationFailure ==
    /\ pc = "prompt"
    /\ \/ \E t \in ShellInputs : Len(t) > MAX_MESSAGE_LENGTH /\ RejectInput(t)
       \/ \E n \in SessionNames, w \in BOOLEAN :
             /\ n # <<>> /\ ~validate_session_name(n)
             /\ SaveSession(n, w)
       \/ \E n \in SessionNames, f \in SessionFiles :
             /\ n # <<>>
             /\ \/ ~validate_session_name(n)
                \/ f \in {"missing", "not_json", "bad_shape", "not_utf8"}
                \/ f = "saved" /\ ~saved.exists
             /\ LoadSession(n, f)

TurnsWithImage(n) == {i \in DOMAIN history : history[i].image = n}

\* C16: a message submitted with an image attached folds the image into the
\* one user turn it constructs and clears it right after: no image is
\* attached while the request runs or when it has succeeded, failed or been
\* cancelled, and no attachment is carried by two turns, nor by a turn while
\* it is still attached.
C16_ImageConsumedOnce ==
    /\ [][(pc = "prompt" /\ image # 0 /\ cycles' # cycles)
            => /\ image' = 0
               /\ pc' = "streaming"
                    => /\ history'[Len(history')].role = "user"
                       /\ history'[Len(history')].image = image]_vars
    /\ [][pc = "streaming" => image' = 0]_vars
    /\ [](pc = "streaming" => image = 0)
    /\ [](\A i \in DOMAIN history :
            history[i].image # 0
                => /\ TurnsWithImage(history[i].image) = {i}
                   /\ history[i].role = "user"
                   /\ history[i].image # image)

\* A second request carries a second image while the turn of the first
\* request still carries the first one.
C16_Witness ==
    /\ pc = "streaming" /\ cycles = 2 /\ image = 0
    /\ history[Len(history)].image = 2
    /\ TurnsWithImage(1) # {}

\* The lines the inner loop has taken out of the buffer so far.
Consumed == delivered - Len(buffer)

\* C17: an object-level error is terminal: once the inner loop has taken a
\* line with an error, no later line changes the accumulated text, the
\* reasoning text or the finish signal, nor writes to the output, however the
\* remaining lines are split across reads.
C17_ErrorIsTerminal ==
    [][(/\ pc = "streaming"
        /\ \E i \in 1..Consumed : IsErrorLine(body[i]))
        => /\ st'.sink = st.sink
           /\ st'.full_text = st.full_text
           /\ st'.full_thinking = st.full_thinking
           /\ st'.finish_reason = st.finish_reason]_vars

\* C18: after the sentinel line "data: [DONE]" has been taken, no later line
\* is displayed or added to the accumulated visible text, whether it came in
\* the read of the sentinel or in a later one.
C18_DoneStopsReading ==
    [][(/\ pc = "streaming"
        /\ \E i \in 1..Consumed : body[i] = Sentinel)
        => /\ st'.sink = st.sink
           /\ st'.full_text = st.full_text]_vars

\* C19: the error slot is first-wins: once an error message has been captured
\* during a request, no later line and no later transport failure of that
\* request replaces it.
C19_ErrorFirstWins ==
    [][(pc = "streaming" /\ st.error_msg # "")
        => st'.error_msg = st.error_msg]_vars

\* What stream_response returns for the accumulated text t when nothing
\* failed: the text with its reasoning blocks removed, or None if that is empty.
TextReturned(t) ==
    LET clean == strip_think_tags(Truncated(t))
    IN  IF clean # <<>> THEN Some(clean) ELSE None

\* C20: Gemini: when the finish signal becomes SAFETY, RECITATION or OTHER
\* and no text has been accumulated, an error is captured and the cycle
\* commits nothing; when text has been accumulated, the signal ends the read
\* loop without error (no later line is displayed or accumulated) and the
\* text accumulated up to the signal is returned.
C20_AbnormalFinish ==
    [][(provider = "gemini" /\ pc = "streaming")
        => /\ (/\ st.finish_reason \notin AbnormalFinish
               /\ st'.finish_reason \in AbnormalFinish
               /\ st'.full_text = <<>>)
                => st'.error_msg # ""
           /\ (/\ st.finish_reason \notin AbnormalFinish
               /\ st'.finish_reason \in AbnormalFinish
               /\ st'.full_text # <<>>)
                => st'.error_msg = st.error_msg
           /\ st.finish_reason \in AbnormalFinish
                => /\ st'.sink = st.sink
                   /\ st'.full_text = st.full_text
           /\ (pc' = "prompt" /\ st.finish_reason \in AbnormalFinish)
                => IF st'.error_msg # ""
                   THEN /\ ai_text' = None
                        /\ history' = SubSeq(history, 1, Len(history) - 1)
                   ELSE ai_text' = TextReturned(st.full_text)]_vars

\* The line carries Gemini's top-level safety-block indicator.
IsBlockLine(line) == line.frame # "other" /\ line.payload = "OBJ" /\ line.block # ""

\* C21 as stated: Gemini: if any chunk the stream has delivered carries
\* promptFeedback.blockReason, stream_response returns no text and no model
\* turn is committed.
C21_Original ==
    [][(/\ provider = "gemini"
        /\ pc = "streaming"
        /\ pc' = "prompt"
        /\ \E i \in 1..delivered : IsBlockLine(body[i]))
        => /\ ai_text' = None
           /\ history' = SubSeq(history, 1, Len(history) - 1)]_vars

\* C21 as amended: Gemini: if a chunk that stream_response parses carries
\* promptFeedback.blockReason, an error is captured whatever text has been
\* accumulated, it is never cleared, stream_response returns no text and no
\* model turn is committed.
C21_BlockAlwaysError ==
    [][(provider = "gemini" /\ pc = "streaming")
        => /\ (\E i \in (Consumed + 1)..(delivered' - Len(buffer')) : IsBlockLine(body'[i]))
                => st'.error_msg # ""
           /\ (\E i \in 1..Consumed : IsBlockLine(body[i]))
                => /\ st.error_msg # ""
                   /\ st'.error_msg # ""
                   /\ pc' = "prompt"
                        => /\ ai_text' = None
                           /\ history' = SubSeq(history, 1, Len(history) - 1)]_vars

\* A Gemini request whose stream carried text and then a safety block is
\* over: no text was returned and the conversation is the initial one again.
C21_Witness ==
    /\ provider = "gemini" /\ pc = "prompt" /\ cycles = 1
    /\ st.error_msg = "Content blocked" /\ st.full_text # <<>>
    /\ ai_text = None /\ history = <<>>

\* What stream_response writes, with reasoning display disabled, for text t
\* arriving as one text-delta.
ShownUnsplit(t) == TextStep(StreamStart, t, FALSE).sink

\* C22: with reasoning display disabled, no character of an inline
\* "<think>...</think>" region and no tag marker is written to the output,
\* also when a marker is split across two text-deltas: what is written for a
\* text is what is written when it arrives as one text-delta, and "<th",
\* "ink>hidden</thi", "nk>vis" writes a line break and "vis".
C22_HiddenNeverShown ==
    [][(ReturnsClean /\ ~thinking_on)
        => /\ st'.sink = ShownUnsplit(BodyText(body))
           /\ body = Framed(provider, SplitExampleBody)
                => st'.sink = <<"\n">> \o T_VIS]_vars

\* ai.py:401: the offset truncate_history counts: 1 for a leading system turn
\* of an OpenAI-compatible conversation, else 0.
CountedOffset ==
    IF conv_compat /\ conv # <<>> /\ conv[1].role = "system" THEN 1 ELSE 0

\* C23: truncate_history returns the conversation unchanged when its length
\* is at most the limit plus the offset; otherwise the result is the leading
\* system turn, if the offset counts it, followed by the most recent turns in
\* order, has at most the limit of turns besides that system turn, and has
\* dropped exactly the excess, or one turn more when alternation is required
\* (Gemini) and the excess is odd.
C23_TrimShape ==
    conv_op = "truncate" =>
        LET excess  == Len(conv) - (MAX_HISTORY_MESSAGES + CountedOffset)
            dropped == Len(conv) - Len(conv_out)
        IN  IF excess <= 0 THEN conv_out = conv
            ELSE /\ dropped = IF ~conv_compat /\ excess % 2 = 1 THEN excess + 1 ELSE excess
                 /\ Len(conv_out) - CountedOffset <= MAX_HISTORY_MESSAGES
                 /\ CountedOffset = 1 => conv_out[1] = conv[1]
                 /\ \A i \in (CountedOffset + 1)..Len(conv_out) :
                        conv_out[i] = conv[i + dropped]

\* A conversation with a counted system turn and two turns above the limit
\* has been trimmed.
C23_Witness ==
    /\ conv_op = "truncate"
    /\ CountedOffset = 1
    /\ Len(conv) = MAX_HISTORY_MESSAGES + 3
    /\ Len(conv_out) = MAX_HISTORY_MESSAGES + 1

\* C24: for either protocol family, a conversation whose first turn has role
\* system keeps that turn through a trim: the result starts with it and goes
\* on with the turns after the dropped window.
C24_TrimKeepsSystem ==
    (conv_op = "truncate" /\ conv # <<>> /\ conv[1].role = "system")
    => /\ conv_out # <<>>
       /\ conv_out[1] = conv[1]
       /\ \A i \in 2..Len(conv_out) :
              conv_out[i] = conv[i + (Len(conv) - Len(conv_out))]
       /\ Len(conv) <= MAX_HISTORY_MESSAGES + 1 => conv_out = conv

\* The turns of the request that is under way: chat_loop passes history to
\* stream_response (ai.py:1078), which builds the payload from it (ai.py:578).
RequestPayload == build_payload(history, IsOpenaiCompat(provider))

\* C25: in a Gemini session started from init_history, the turns of every
\* request payload alternate user, model, user, ..., starting with a user
\* turn and ending with the user turn just submitted, after any successful,
\* failed, empty and cancelled cycles and any trims.
C25_PayloadAlternates ==
    (provider = "gemini" /\ pc = "streaming")
    => /\ RequestPayload # <<>>
       /\ \A i \in DOMAIN RequestPayload :
              RequestPayload[i].role = IF i % 2 = 1 THEN "user" ELSE "model"
       /\ Len(RequestPayload) % 2 = 1

\* The fourth request of a Gemini session is under way: its payload is a user
\* turn, a reply and the user turn just submitted.
C25_Witness ==
    /\ provider = "gemini" /\ pc = "streaming" /\ cycles = 4
    /\ Len(RequestPayload) = 3
    /\ RequestPayload[2] = Turn("model", T_A)

\* C26: in a Family B session with a non-empty system prompt started from
\* init_history, the first turn of the conversation is the system turn with
\* the system prompt as text in every reachable state, it is the only system
\* turn, and every request payload starts with it.
C26_SystemTurnStays ==
    (IsOpenaiCompat(provider) /\ SYSTEM_PROMPT # <<>>)
    => /\ history # <<>>
       /\ history[1] = Turn("system", SYSTEM_PROMPT)
       /\ \A i \in 2..Len(history) : history[i].role # "system"
       /\ pc = "streaming" => RequestPayload[1] = Turn("system", SYSTEM_PROMPT)

\* A Family B conversation that a trim has shortened (an even number of
\* turns at the prompt) still starts with the system turn.
C26_Witness ==
    /\ IsOpenaiCompat(provider) /\ pc = "prompt"
    /\ Len(history) = MAX_HISTORY_MESSAGES + 2
    /\ history[1] = Turn("system", SYSTEM_PROMPT)
    /\ history[2].role = "assistant"

\* C27: in a Gemini session with a non-empty system prompt started from
\* init_history, every request payload carries the system prompt text at the
\* head of the content of its first user turn.
C27_PromptInEveryPayload ==
    (provider = "gemini" /\ SYSTEM_PROMPT # <<>> /\ pc = "streaming")
    => /\ RequestPayload # <<>>
       /\ RequestPayload[1].role = "user"
       /\ StartsWith(RequestPayload[1].content, SYSTEM_PROMPT)

\* The places of the turns of conv that are no system turns.
NonSystem == {i \in DOMAIN conv : conv[i].role # "system"}

\* C28: for Gemini, build_payload leaves the system turns out of the payload:
\* the contents hold no turn with role system and are exactly the other turns
\* of the conversation in their order; the conversation itself is unchanged.
C28_PayloadDropsSystem ==
    [][(conv_op' = "payload" /\ ~conv_compat)
        => /\ conv' = conv
           /\ \A k \in DOMAIN conv_out' : conv_out'[k].role # "system"
           /\ Len(conv_out') = Cardinality(NonSystem)
           /\ \A k \in DOMAIN conv_out' :
                  \E i \in NonSystem :
                      /\ Cardinality({j \in NonSystem : j <= i}) = k
                      /\ conv_out'[k] = conv[i]]_vars

\* The payload of a Gemini conversation with a system turn at its head and
\* another one further on has been built.
C28_Witness ==
    /\ conv_op = "payload" /\ ~conv_compat
    /\ Len(conv) = 5
    /\ conv[1].role = "system" /\ conv[3].role = "system"
    /\ Len(conv_out) = 3

\* A line the parser skips: it starts neither with "data: " nor with "{" (a
\* blank line, an SSE comment, an "event:" line), or its payload is no JSON.
IsSkippedLine(line) == line.frame = "other" \/ line.payload = "BAD"

\* C29: a line that starts neither with "data: " nor with "{", a blank line
\* and a line whose payload fails to parse as JSON are skipped: a pass of the
\* read loop over such lines only changes nothing of the stream state and
\* leaves the loop running, and a pass over any lines ends as it would
\* without the skipped lines among them.
C29_NoiseSkipped ==
    [][(pc = "streaming" /\ delivered' > delivered)
        => LET lines == buffer \o SubSeq(body, delivered + 1, delivered')
               taken == SubSeq(lines, 1, Len(lines) - Len(buffer'))
               kept  == SelectSeq(lines, LAMBDA l : ~IsSkippedLine(l))
           IN  /\ (\A i \in DOMAIN taken : IsSkippedLine(taken[i]))
                    => /\ st' = st
                       /\ pc' = "streaming"
                       /\ buffer' = <<>>
               /\ st' = ProcessBuffer(st, kept, provider, thinking_on).s]_vars

\* A text-delta, a line that is no JSON and a second text-delta have been
\* read: both deltas are accumulated and nothing else has changed.
C29_Witness ==
    /\ pc = "streaming"
    /\ body = Framed(provider, <<Delta(T_A), BadJson, Delta(T_A)>>)
    /\ delivered = 3 /\ buffer = <<>>
    /\ st.full_text = T_A \o T_A
    /\ st.error_msg = "" /\ st.finish_reason = ""

\* The text a stream gives when all its bytes arrive in one read.
OneReadText == SplitLines(decode(wire), <<>>).full_text

\* C30: a multi-byte character whose bytes are split across two reads puts
\* no replacement character into the output: the text returned for a
\* stream is the text it gives when it arrives in one read, however the
\* reads cut it.
C30_SplitCharIntact ==
    wire_pc = "returned"
        => /\ wire_text = OneReadText
           /\ \A i \in DOMAIN wire_text : wire_text[i] # REPLACEMENT

\* C31: a request cycle that ends in an error leaves the conversation as it
\* was before the message was submitted, also when the conversation was at
\* the history limit.  (A cycle whose connection fails is one step: the user
\* turn is appended, the conversation trimmed, the request fails and the
\* rollback runs.)
C31_FailedCycleRestores ==
    [][(pc = "prompt" /\ pc' = "prompt" /\ cycles' = cycles + 1)
        => history' = history]_vars

\* The tags strip_think_tags finds in text t, each as <<first, last>>: the
\* places of the "<" of its marker and of its ">" (of the end of the text
\* when it has no ">"), counted from off; inside says whether the scan is
\* within a reasoning region.
RECURSIVE TagSpans(_, _, _)
TagSpans(t, off, inside) ==
    LET marker == IF inside THEN CLOSE_TAG ELSE OPEN_TAG
        i == Find(t, marker)
    IN  IF i = -1 THEN {}
        ELSE LET bracket == Find(Drop(t, i + Len(marker)), GT)
                 last == IF bracket = -1 THEN Len(t) ELSE i + Len(marker) + bracket + 1
             IN  {<<off + i + 1, off + last>>}
                 \cup (IF bracket = -1 THEN {}
                       ELSE TagSpans(Drop(t, last), off + last, ~inside))

\* The places in the text of body b where one text-delta ends and the next
\* begins.
DeltaEnds(b) == {Len(BodyText(SubSeq(b, 1, k))) : k \in 1..Len(b)} \ {Len(BodyText(b))}

\* Every opening and closing tag of the text of b, through its ">", lies
\* inside one text-delta.
TagsWhole(b) ==
    \A span \in TagSpans(BodyText(b), 0, FALSE) :
        \A e \in DeltaEnds(b) : ~(span[1] <= e /\ e < span[2])

\* The answer text in what was written to stdout: the line break written
\* where a reasoning region closes is layout (the texts streamed here hold
\* no line break of their own).
AnswerShown(sink) == SelectSeq(sink, LAMBDA c : c # "\n")

\* C32: with reasoning display off, a text of at most MAX_MESSAGE_LENGTH
\* characters and every opening and closing tag, through its ">", inside one
\* text-delta, the answer text written to stdout over the whole stream is
\* strip_think_tags of the accumulated text, and it is the text the request
\* returns (no text when it is empty).
C32_DisplayAgreesWithStripper ==
    [][(/\ pc = "streaming" /\ pc' = "prompt"
        /\ delivered = Len(body) /\ buffer = <<>>
        /\ ~thinking_on
        /\ Len(BodyText(body)) <= MAX_MESSAGE_LENGTH
        /\ TagsWhole(body))
        => /\ AnswerShown(st'.sink) = strip_think_tags(st'.full_text)
           /\ st'.error_msg = ""
                => /\ ai_text'.text = AnswerShown(st'.sink)
                   /\ ai_text'.none = (AnswerShown(st'.sink) = <<>>)]_vars

\* "<think>", "h", "</think>v" has been streamed with reasoning display off:
\* a line break and "v" were written and "v" was returned.
C32_Witness ==
    /\ pc = "prompt"
    /\ cycles = 1
    /\ ~thinking_on
    /\ body = Framed(provider, <<Delta(T_OPEN), Delta(<<"h">>), Delta(T_CLOSE \o <<"v">>)>>)
    /\ TagsWhole(body)
    /\ st.sink = <<"\n", "v">>
    /\ ai_text = Some(<<"v">>)

\* The locals of stream_response but what it wrote to stdout and whether the
\* reasoning marker is open.
BesidesDisplay(s) ==
    [full_text |-> s.full_text, full_thinking |-> s.full_thinking,
     first_chunk |-> s.first_chunk, is_thinking |-> s.is_thinking,
     finish_reason |-> s.finish_reason, error_msg |-> s.error_msg,
     interrupted |-> s.interrupted]

\* The locals the same stream may have reached under the other setting of
\* reasoning display: they differ in the display only (what was written is
\* never read back and is left empty).
OtherDisplay(s) == {[s EXCEPT !.sink = <<>>, !.in_think_disp = d] : d \in BOOLEAN}

\* The reasoning streamed in thinking-deltas is "r"; no text-delta, prompt or
\* message holds an "r".
HoldsReasoning(text) == \E i \in DOMAIN text : text[i] = T_R[1]

\* C33: reasoning display and thinking-deltas touch only what is written to
\* stdout.  Every pass of the read loop, run with the other setting of
\* reasoning display, ends with the same locals besides the display, the same
\* buffer and the same outcome; the text stream_response returns and the
\* conversation after the cycle are those of the other setting; and no
\* reasoning of a thinking-delta is in the returned text or in a turn of the
\* conversation.
C33_DisplayOnlyToggle ==
    [][/\ (pc = "streaming" /\ delivered' > delivered)
            => \A alt \in OtherDisplay(st) :
                   LET lines == buffer \o SubSeq(body, delivered + 1, delivered')
                       r == ProcessBuffer(alt, lines, provider, ~thinking_on)
                   IN  /\ BesidesDisplay(r.s) = BesidesDisplay(st')
                       /\ r.buffer = buffer'
                       /\ r.raised = (pc' = "crashed")
       /\ (pc = "streaming" /\ pc' = "prompt")
            => \A alt \in OtherDisplay(st') :
                   /\ ai_text' = PostStream(alt)
                   /\ history' = Commit(history, PostStream(alt), IsOpenaiCompat(provider))
       /\ ~HoldsReasoning(ai_text'.text)
       /\ \A i \in DOMAIN history' : ~HoldsReasoning(history'[i].content)]_vars

\* A thinking-delta "r" and a text-delta "a" have been streamed with
\* reasoning display on: the reasoning was shown and accumulated apart, "a"
\* was returned and committed.
C33_Witness ==
    /\ pc = "prompt"
    /\ cycles = 1
    /\ thinking_on
    /\ body = Framed(provider, <<ThinkDelta(T_R), Delta(T_A)>>)
    /\ st.full_thinking = T_R
    /\ HoldsReasoning(st.sink)
    /\ ai_text = Some(T_A)
    /\ history[Len(history)] = Turn(ReplyRole(IsOpenaiCompat(provider)), T_A)
====
